---- MODULE Spec2Model ----
(***************************************************************************)
(* A state-machine model of ClvLib::ImplCBMI (src/src/cbmi.h), the         *)
(* concept-based-model-idiom container, together with the interfaces and   *)
(* concrete types its tests instantiate it with (src/tests/cbmi_tests.cpp).*)
(*                                                                         *)
(* A container is a slot holding mPoly, a std::unique_ptr<Concept>.  A     *)
(* handle is a heap-allocated ModelImpl<Model<TypeImplT>>.  TypeImplT is   *)
(* deduced by the constructor that built the handle:                       *)
(*    "T"   Model<T>    from an rvalue (temporary): mObj is a T            *)
(*    "T&"  Model<T&>   from an lvalue (named value): PolyT deduces to T&, *)
(*                      so the member `TypeImplT mObj` is a reference      *)
(*    "T*"  Model<T*>   from a pointer: the partial specialization         *)
(*                                                                         *)
(* The caller's named values live for the whole run, as the locals of the  *)
(* tests do: the lifetime of caller-owned storage is not modelled.         *)
(***************************************************************************)
EXTENDS Integers, FiniteSets, Sequences, TLC

\* Bounds of the model.
NumSlots == 2
NumExt == 1
MaxVal == 1
MaxArg == 3
MaxLen == 2

Slots == 1..NumSlots            \* places a container can be constructed in
ExtIds == 1..NumExt             \* caller-owned named values
Vals == 0..MaxVal               \* values of DuckC::mI
ProcArgs == 0..MaxArg           \* arguments passed to proc
MaxHandles == NumSlots + 1
HandleIds == 1..MaxHandles      \* addresses operator new can return
Null == 0                       \* the null pointer

VARIABLES
    iface,      \* which instantiation of ImplCBMI is under study
    ext,        \* caller-owned named values: ExtIds -> [type, val]
    heap,       \* the free store: (HandleIds and Null) -> handle record
    mPoly,      \* Slots -> the unique_ptr of the container in that slot
    live,       \* Slots -> constructed and not yet destroyed
    moved,      \* history: the container was the source of a move
    doubleFree, \* history: delete was applied to a handle already released
    last,       \* history: the operation that led to this state
    rt,         \* Slots -> the runtime_dispatch value (rtab) in that slot
    call,       \* the call under way: its inputs, its steps and its result
    shared      \* SharedThis objects, the shared_ptr handles to them, a copy

vars == <<iface, ext, heap, mPoly, live, moved, doubleFree, last, rt, call,
          shared>>

-----------------------------------------------------------------------------
(* The interfaces and concrete types of the tests.                         *)

Ifaces == {"Duck", "Gen", "Arg"}
DuckTypes == {"DuckA", "DuckB", "DuckC"}
GenTypes == {"Gen2Int", "Gen3Int", "Gen4"}
ArgTypes == {"Arg1", "Arg2", "ArgX"}
DrawTypes == {"Circle", "Square", "Line"}

TypesOf(i) ==
    CASE i = "Duck" -> DuckTypes
      [] i = "Gen" -> GenTypes
      [] i = "Arg" -> ArgTypes
      [] i = "Draw" -> DrawTypes

\* DuckC is the one concrete type with a data member (int mI).
HasState(t) == t = "DuckC"

ValsOf(t) == IF HasState(t) THEN Vals ELSE {0}

\* The named values the caller declares (duckC, duckA, duckB in
\* DuckTypeVector2): the x-th one has the x-th type of this list.
NamedTypes(i) ==
    CASE i = "Duck" -> <<"DuckC", "DuckA", "DuckB">>
      [] i = "Gen" -> <<"Gen2Int", "Gen3Int", "Gen4">>
      [] i = "Arg" -> <<"Arg1", "Arg2", "ArgX">>
      [] i = "Draw" -> <<"Line", "Square", "Circle">>

NamedType(i, x) == NamedTypes(i)[((x - 1) % 3) + 1]

DigitChar(n) == <<"0", "1", "2", "3", "4", "5", "6", "7", "8", "9">>[n + 1]

\* std::to_string(int) of a non-negative int: its decimal digits, most
\* significant first, as a sequence of characters.
RECURSIVE to_string(_)
to_string(n) ==
    IF n < 10
    THEN <<DigitChar(n)>>
    ELSE to_string(n \div 10) \o <<DigitChar(n % 10)>>

\* std::to_string(double) of a non-negative whole number: "%f" prints the
\* integral digits, a point and six decimals.
to_string_double(n) ==
    to_string(n) \o <<".", "0", "0", "0", "0", "0", "0">>

\* name() of the concrete types: "DuckA", "DuckB", "DuckC[" + mI + "]".
name(v) ==
    CASE v.type = "DuckA" -> <<"DuckA">>
      [] v.type = "DuckB" -> <<"DuckB">>
      [] v.type = "DuckC" -> <<"DuckC[">> \o to_string(v.val) \o <<"]">>
      [] OTHER -> <<"undefined">>

walk(v) ==
    CASE v.type = "DuckA" -> "walks like a duck"
      [] v.type = "DuckB" -> "walks like a duck"
      [] v.type = "DuckC" -> "walks like a duck"
      [] OTHER -> "undefined"

quack(v) ==
    CASE v.type = "DuckA" -> "quacks like a duck"
      [] v.type = "DuckB" -> "quacks like a duck"
      [] v.type = "DuckC" -> "quacks like a duck"
      [] OTHER -> "undefined"

\* proc(int) of Gen2Int, Gen3Int and Gen4<int>.
proc(v, i) ==
    CASE v.type = "Gen2Int" -> i * 2
      [] v.type = "Gen3Int" -> i * 3
      [] v.type = "Gen4" -> i * 4
      [] OTHER -> -1

\* proc(double, int) of Arg1, Arg2 and ArgX<double, int, std::string>.
proc2(v, d, i) ==
    CASE v.type = "Arg1" -> to_string_double(i * d)
      [] v.type = "Arg2" -> to_string_double(i * 2 * d)
      [] v.type = "ArgX" -> to_string_double(i * 2 * d)
      [] OTHER -> <<"undefined">>

\* The concept IsDrawable: the type has a member draw().
IsDrawable(t) == t \in {"Circle", "Line"}

\* The member draw() of Circle and of Line; Square has none.
draw(v) ==
    CASE v.type = "Circle" -> "MemberCircle"
      [] v.type = "Line" -> "MemberLine"
      [] OTHER -> "undefined"

\* template <IsDrawable DrawableT> draw_fn(const DrawableT &d): d.draw().
draw_fn_DrawableT(v) == draw(v)

\* The types a non-template draw_fn(const T &) is declared for.
HasOverload(t) == t \in {"Square", "Line"}

\* draw_fn(const Square &) and draw_fn(const Line &).
draw_fn_T(v) ==
    CASE v.type = "Square" -> "Square"
      [] v.type = "Line" -> "Line"
      [] OTHER -> "undefined"

\* An overload resolution that takes the member trampoline when it is viable.
draw_fn_MemberFirst(v) ==
    IF IsDrawable(v.type) THEN draw_fn_DrawableT(v) ELSE draw_fn_T(v)

\* The call draw_fn(x): both candidates bind const T & exactly, and a
\* non-template function is preferred to a template specialization.
draw_fn(v) ==
    IF HasOverload(v.type) THEN draw_fn_T(v)
    ELSE IF IsDrawable(v.type) THEN draw_fn_DrawableT(v)
    ELSE "undefined"

-----------------------------------------------------------------------------
(* Handles: ImplCBMI::Model<TypeImplT> and its pointer specialization.     *)

Free == [kind |-> "free", type |-> "-", val |-> 0, target |-> 0]

\* Model<T>::Model(T &&): mObj is move-constructed from the temporary.
Model_Value(t, v) == [kind |-> "T", type |-> t, val |-> v, target |-> 0]

\* Model<T&>::Model(const TypeImplT &) with TypeImplT = T&: the parameter
\* collapses to T& and the member `TypeImplT mObj` binds to the argument.
Model_Ref(x) ==
    [kind |-> "T&", type |-> ext[x].type, val |-> 0, target |-> x]

\* A pointer constructor that stores a copy of the pointee.
Model_Ptr_Copy(x) ==
    [kind |-> "T", type |-> ext[x].type, val |-> ext[x].val, target |-> 0]

\* Model<T*>::Model(T *): mObj is the pointer.
Model_Ptr(x) ==
    [kind |-> "T*", type |-> ext[x].type, val |-> 0, target |-> x]

\* A Clone that default-constructs the copy instead of copying mObj.
Model_Clone_Default(m) ==
    IF m.kind = "T" THEN Model_Value(m.type, 0) ELSE Model_Ref(m.target)

\* Model<TypeImplT>::Clone: new ModelImpl<Model<TypeImplT>>(mObj).  For
\* TypeImplT = T the lvalue mObj is copied; for T& the new reference member
\* binds to the object mObj refers to.
Model_Clone(m) ==
    IF m.kind = "T" THEN Model_Value(m.type, m.val) ELSE Model_Ref(m.target)

\* A pointer Clone that copies the pointee into an owning handle.
ModelPtr_Clone_Deep(m) == Model_Value(m.type, ext[m.target].val)

\* Model<T*>::Clone: new ModelImpl<Model<T*>>(mObj), the same pointer.
ModelPtr_Clone(m) == Model_Ptr(m.target)

\* A Clone that copies only the Concept base, losing the concrete value.
Concept_Clone_Sliced(m) == [kind |-> "T", type |-> "-", val |-> 0, target |-> 0]

\* The virtual call poly.mPoly->Clone().
Concept_Clone(m) ==
    IF m.kind = "T*" THEN ModelPtr_Clone(m) ELSE Model_Clone(m)

\* Model::DelegateTo: a reference to the concrete value, given as the place
\* it lives in: inside the handle (mObj), or in caller-owned storage.
Model_DelegateTo(h) ==
    IF heap[h].kind = "T"
    THEN [space |-> "heap", at |-> h]
    ELSE [space |-> "ext", at |-> heap[h].target]

\* ImplCBMI::DelegateTo: *mPoly.
ImplCBMI_DelegateTo(c) == mPoly[c]

\* Reading the concrete value a reference denotes.
Deref(r) ==
    IF r.space = "heap"
    THEN [type |-> heap[r.at].type, val |-> heap[r.at].val]
    ELSE [type |-> ext[r.at].type, val |-> ext[r.at].val]

\* The concrete value a container's operations reach.
Held(c) == Deref(Model_DelegateTo(ImplCBMI_DelegateTo(c)))

\* The forwarding adapters: DuckDelegate, GenDelegate, ArgDelegate.
DuckDelegate_name(c) == name(Held(c))
DuckDelegate_walk(c) == walk(Held(c))
DuckDelegate_quack(c) == quack(Held(c))
\* A proc adapter that forwards a constant instead of its argument.
GenDelegate_proc_Const(c, i) == proc(Held(c), 1)

GenDelegate_proc(c, i) == proc(Held(c), i)
ArgDelegate_proc(c, d, i) == proc2(Held(c), d, i)

\* DrawModel::draw: draw_fn(BaseT::DelegateTo()); DrawInterface::draw calls
\* it through the Concept.
DrawModel_draw(c) == draw_fn(Held(c))
DrawInterface_draw(c) == DrawModel_draw(c)

\* Everything a caller can observe through a container's interface.
Obs(c) ==
    CASE iface = "Duck" ->
            <<DuckDelegate_name(c), DuckDelegate_walk(c), DuckDelegate_quack(c)>>
      [] iface = "Gen" -> <<[i \in ProcArgs |-> GenDelegate_proc(c, i)]>>
      [] iface = "Arg" ->
            <<[d \in ProcArgs |-> [i \in ProcArgs |-> ArgDelegate_proc(c, d, i)]]>>
      [] iface = "Draw" -> <<DrawInterface_draw(c)>>

\* The same operations called on a caller-owned value directly.
ObsExt(x) ==
    LET v == [type |-> ext[x].type, val |-> ext[x].val] IN
    CASE iface = "Duck" -> <<name(v), walk(v), quack(v)>>
      [] iface = "Gen" -> <<[i \in ProcArgs |-> proc(v, i)]>>
      [] iface = "Arg" ->
            <<[d \in ProcArgs |-> [i \in ProcArgs |-> proc2(v, d, i)]]>>
      [] iface = "Draw" -> <<draw_fn(v)>>

-----------------------------------------------------------------------------
(* std::unique_ptr<Concept> and the free store.                            *)

Allocated == {h \in HandleIds : heap[h] # Free}

\* The addresses operator new may return.  Addresses are only ever compared
\* for equality, so the lowest free one stands for any free one.
FreeHandles ==
    {h \in HandleIds \ Allocated : \A g \in HandleIds \ Allocated : h <= g}

\* A delete that releases nothing.
Delete_Leak(hp, p) == hp

\* A delete that also releases the other handles referring to the storage
\* the deleted handle refers to.
Delete_Aliases(hp, p) ==
    [h \in DOMAIN hp |->
        IF \/ h = p /\ p # Null
           \/ /\ p # Null
              /\ hp[p].kind \in {"T&", "T*"}
              /\ hp[h].kind \in {"T&", "T*"}
              /\ hp[h].target = hp[p].target
        THEN Free ELSE hp[h]]

\* delete p: releasing the null pointer does nothing.
Delete(hp, p) == IF p = Null THEN hp ELSE [hp EXCEPT ![p] = Free]

\* delete applied to a handle that is not allocated.
BadDelete(p) == p # Null /\ heap[p] = Free

\* A move that leaves the source pointer in place.
MovedFrom_Keep(p) == p

\* What a unique_ptr holds after it has been moved from.
MovedFrom(p) == Null

\* A reset that drops the new pointer.
ResetTo_Drop(t) == Null

\* What mPoly.reset(t) leaves in mPoly.
ResetTo(t) == t

\* A copy assignment without the self-assignment test.
SelfAssign_Never(c, s) == FALSE

\* operator=(const ImplCBMI &poly): the test this != &poly, negated.
SelfAssign(c, s) == c = s

Op(o, d, s) == [op |-> o, dst |-> d, src |-> s]

-----------------------------------------------------------------------------
(* ClvLib::runtime_dispatch and the dispatch macros                         *)
(* (src/src/runtime_dispatcher.h, src/src/tuple_help.h), with the           *)
(* alternatives A and B of src/tests/runtime_dispatcher_tests.cpp.          *)
(*                                                                          *)
(* A type is a base type with top-level const and a reference kind.  A      *)
(* double that holds a whole number or a half is kept as the count of its   *)
(* halves, so that A::f2 (d / 2) stays exact.                               *)

\* struct rtab : runtime_dispatch<A, B>: the alternatives in order.
Alts == <<"A", "B">>
AltSet == {Alts[n] : n \in DOMAIN Alts}

Ty(b, c, r) == [base |-> b, const |-> c, ref |-> r]

Integral == {"int", "long"}
Floating == {"float", "double"}
Bases == Integral \cup Floating \cup {"string", "A"}

\* The double or float holding the whole number n.
Dbl(n) == 2 * n

\* A(int i_) is A's only constructor besides copy and move; every other base
\* type can be value-initialized with {}.
DefaultConstructible(b) == b # "A"

\* std::remove_reference, std::remove_cv (top-level only) and std::decay.
remove_reference(t) == [t EXCEPT !.ref = "val"]
remove_cv(t) == IF t.ref = "val" THEN [t EXCEPT !.const = FALSE] ELSE t
decay(t) == remove_cv(remove_reference(t))

apply_metafun_t(t, MetaFun) ==
    IF MetaFun = "remove_reference" THEN remove_reference(t) ELSE remove_cv(t)

\* A type computation that does not compile.
IllFormed == [ok |-> FALSE, types |-> <<>>]

\* T{}: a temporary of a default-constructible base type, to which an
\* rvalue reference or a reference to const, but no other reference, binds.
ValueInit(t) ==
    /\ DefaultConstructible(t.base)
    /\ t.ref = "lref" => t.const

\* tuple_transform<MetaFun>(t): std::make_tuple(MetaFun<E>::type{}...) over
\* the elements E.  Each transformed type is value-initialized, and
\* make_tuple stores the decayed types.
tuple_transform(MetaFun, types) ==
    IF \A n \in DOMAIN types : ValueInit(apply_metafun_t(types[n], MetaFun))
    THEN [ok |-> TRUE,
          types |-> [n \in DOMAIN types |->
                        decay(apply_metafun_t(types[n], MetaFun))]]
    ELSE IllFormed

remove_reference_tuple_t(tup) ==
    IF tup.ok THEN tuple_transform("remove_reference", tup.types) ELSE IllFormed

remove_cv_tuple_t(tup) ==
    IF tup.ok THEN tuple_transform("remove_cv", tup.types) ELSE IllFormed

\* A member function: parameter types, return type, and the qualifiers
\* after the parameter list ("", "const", "noexcept", "const noexcept").
Sig(p, r, q) == [params |-> p, ret |-> r, qual |-> q]

Quals == {"", "const", "noexcept", "const noexcept"}
IsConst(q) == q \in {"const", "const noexcept"}

\* function_traits<T>: specialized for ReturnType (ClassType::*)(Args...)
\* alone, a pointer to a member function without qualifiers.
function_traits(sig) ==
    IF sig.qual = "" THEN [ok |-> TRUE, types |-> sig.params] ELSE IllFormed

\* The member functions named f of each alternative.  f, f1 .. f5 and fn are
\* those of the tests' A and B; the other names are further shapes of member
\* the macros can be declared for: qualified (g, h, k), overloaded (ov),
\* differing in return type (rt) or in parameter type (md) between the
\* alternatives, taking an A (ta) or a std::string & (lv), or present on A
\* alone (only).
Members(alt, f) ==
    CASE f = "f" -> {Sig(<<>>, "void", "")}
      [] f = "f1" -> {Sig(<<Ty("int", FALSE, "val")>>, "void", "")}
      [] f = "f2" -> {Sig(<<Ty("double", FALSE, "val")>>, "double", "")}
      [] f = "f3" -> {Sig(<<Ty("int", FALSE, "val"),
                            Ty("double", FALSE, "val")>>, "double", "")}
      [] f = "f4" -> {Sig(<<Ty("string", TRUE, "lref")>>, "void", "")}
      [] f = "f5" -> {Sig(<<Ty("string", TRUE, "rref")>>, "void", "")}
      [] f = "fn" -> IF alt = "B" THEN {Sig(<<>>, "void", "")} ELSE {}
      [] f = "g" -> {Sig(<<Ty("int", FALSE, "val")>>, "int", "const")}
      [] f = "h" -> {Sig(<<Ty("int", FALSE, "val")>>, "int", "noexcept")}
      [] f = "k" -> {Sig(<<Ty("int", FALSE, "val")>>, "int", "const noexcept")}
      [] f = "ov" -> {Sig(<<Ty("int", FALSE, "val")>>, "int", ""),
                      Sig(<<Ty("double", FALSE, "val")>>, "int", "")}
      [] f = "rt" -> {Sig(<<Ty("int", FALSE, "val")>>,
                          IF alt = "A" THEN "int" ELSE "double", "")}
      [] f = "md" -> {Sig(<<Ty(IF alt = "A" THEN "int" ELSE "double",
                               FALSE, "val")>>, "void", "")}
      [] f = "ta" -> {Sig(<<Ty("A", FALSE, "val")>>, "void", "")}
      [] f = "lv" -> {Sig(<<Ty("string", FALSE, "lref")>>, "void", "")}
      [] f = "only" -> IF alt = "A"
                       THEN {Sig(<<Ty("int", FALSE, "val")>>, "void", "")}
                       ELSE {}

TestNames == {"f", "f1", "f2", "f3", "f4", "f5", "fn"}
Names == TestNames \cup {"g", "h", "k", "ov", "rt", "md", "ta", "lv", "only"}

\* An argument expression: its type, its value category and its value.
Arg(b, c, k, v) == [base |-> b, const |-> c, cat |-> k, val |-> v]

\* template <typename... ArgsT> FUNC_NAME(ArgsT &&...args): an lvalue of
\* type T deduces T &, an rvalue deduces T.
Deduce(a) == Ty(a.base, a.const, IF a.cat = "lvalue" THEN "lref" ELSE "val")
DeduceAll(args) == [n \in DOMAIN args |-> Deduce(args[n])]

\* Passing std::forward<ArgsT>(arg) for a parameter of type p: the rank of
\* the implicit conversion (0 exact, 1 promotion, 2 conversion), or NoConv.
NoConv == 3
Conv(t, p) ==
    IF t.base = p.base
    THEN CASE p.ref = "val" -> 0
           [] p.ref = "lref" ->
                IF p.const \/ (t.ref = "lref" /\ ~t.const) THEN 0 ELSE NoConv
           [] p.ref = "rref" ->
                IF t.ref = "val" /\ (p.const \/ ~t.const) THEN 0 ELSE NoConv
    ELSE IF /\ t.base \in Integral \cup Floating
            /\ p.base \in Integral \cup Floating
            /\ (p.ref = "lref" => p.const)
         THEN IF t.base = "float" /\ p.base = "double" THEN 1 ELSE 2
         ELSE NoConv

\* The call v.FUNC_NAME(std::forward<ArgsT>(args)...) on an object that is
\* const or not: the viable overloads and the best of them.
Viable(sig, types, objConst) ==
    /\ Len(sig.params) = Len(types)
    /\ \A n \in DOMAIN types : Conv(types[n], sig.params[n]) # NoConv
    /\ objConst => IsConst(sig.qual)

Better(s, t, types) ==
    /\ \A n \in DOMAIN types :
            Conv(types[n], s.params[n]) <= Conv(types[n], t.params[n])
    /\ \E n \in DOMAIN types :
            Conv(types[n], s.params[n]) < Conv(types[n], t.params[n])

\* An overload resolution that takes any viable function for the best.
BestViable_Any(sigs, types, objConst) ==
    {s \in sigs : Viable(s, types, objConst)}

BestViable(sigs, types, objConst) ==
    LET viable == {s \in sigs : Viable(s, types, objConst)} IN
    {s \in viable : \A t \in viable \ {s} : Better(s, t, types)}

MemberCall(alt, f, types, objConst) ==
    IF Members(alt, f) = {} THEN {"no member"}
    ELSE IF \A s \in Members(alt, f) : ~Viable(s, types, objConst)
         THEN {"no matching function"}
    ELSE IF BestViable(Members(alt, f), types, objConst) = {}
         THEN {"ambiguous"}
    ELSE {}

Selected(alt, f, types, objConst) ==
    CHOOSE s \in BestViable(Members(alt, f), types, objConst) : TRUE

\* The dispatch macros: strict (RT_DISPATCHIMPL) or loose
\* (RT_DISPATCH_OVERLOADIMPL), each with the qualifiers CVQ of the
\* generated member function.
Macro(s, q) == [strict |-> s, cvq |-> q]
RT_DISPATCH == Macro(TRUE, "")
RT_DISPATCH_CONST == Macro(TRUE, "const")
RT_DISPATCH_NOEXCEPT == Macro(TRUE, "noexcept")
RT_DISPATCH_CNE == Macro(TRUE, "const noexcept")
RT_DISPATCH_OVERLOAD == Macro(FALSE, "")
RT_DISPATCH_OVERLOAD_CONST == Macro(FALSE, "const")
RT_DISPATCH_OVERLOAD_NOEXCEPT == Macro(FALSE, "noexcept")
RT_DISPATCH_OVERLOAD_CNE == Macro(FALSE, "const noexcept")
Macros == [strict : BOOLEAN, cvq : Quals]

AssertMessage == "Argument(s) not of expected type"

\* A strict lambda without the static_assert and the types it compares.
\* The body of the strict lambda proper follows it, instantiated for the
\* alternative alt: the errors of func_type, func_arg_tuple, args_tuple, the
\* static_assert and the forwarded call.

RT_DISPATCHIMPL_NoAssert(alt, f, cvq, types) ==
    MemberCall(alt, f, types, IsConst(cvq))

RT_DISPATCHIMPL(alt, f, cvq, types) ==
    LET sigs == Members(alt, f) IN
    IF sigs = {} THEN {"no member"}
    ELSE IF Cardinality(sigs) > 1 THEN {"overloaded"}
    ELSE
        LET sig == CHOOSE s \in sigs : TRUE
            arg_tuple == function_traits(sig)
            func_arg_tuple == remove_cv_tuple_t(remove_reference_tuple_t(arg_tuple))
            args_tuple == remove_cv_tuple_t(remove_reference_tuple_t(
                              [ok |-> TRUE, types |-> types]))
        IN  (IF ~arg_tuple.ok THEN {"function_traits"}
             ELSE IF ~func_arg_tuple.ok \/ ~args_tuple.ok
                  THEN {"value-initialization"}
             ELSE IF args_tuple.types # func_arg_tuple.types
                  THEN {AssertMessage}
             ELSE {})
            \cup MemberCall(alt, f, types, IsConst(cvq))

\* The body of the loose lambda: the forwarded call alone.
RT_DISPATCH_OVERLOADIMPL(alt, f, cvq, types) ==
    MemberCall(alt, f, types, IsConst(cvq))

Lambda(alt, f, macro, types) ==
    IF macro.strict THEN RT_DISPATCHIMPL(alt, f, macro.cvq, types)
    ELSE RT_DISPATCH_OVERLOADIMPL(alt, f, macro.cvq, types)

\* A visit that instantiates the visitor for the active alternative only.
visit_Active(active) == {active}

\* std::visit instantiates the visitor for every alternative of the
\* variant, whichever is active.
visit(active) == AltSet

\* The errors of the call r.FUNC_NAME(args...) on a dispatcher whose active
\* alternative is active; the empty set when the call compiles.  std::visit
\* requires one return type of all the instantiations.
DispatchErrors(active, f, macro, args) ==
    LET types == DeduceAll(args)
        errs == UNION {Lambda(alt, f, macro, types) : alt \in visit(active)}
    IN  IF errs # {} THEN errs
        ELSE IF \E a, b \in visit(active) :
                    Selected(a, f, types, IsConst(macro.cvq)).ret #
                    Selected(b, f, types, IsConst(macro.cvq)).ret
             THEN {"visit return type"}
        ELSE {}

Accepted(active, f, macro, args) == DispatchErrors(active, f, macro, args) = {}

\* The objects a dispatcher can hold: A(i) and B().
ObjA(i) == [type |-> "A", i |-> i]
ObjB == [type |-> "B", i |-> 0]
Objects == {ObjA(i) : i \in Vals} \cup {ObjB}

\* A variant that records its first alternative whatever it stores.
variant_First(o) == [index |-> 0, obj |-> o]

\* using std::variant<Ts...>::variant: the converting constructor selects
\* the alternative of the object's type.
variant(o) ==
    [index |-> (CHOOSE n \in DOMAIN Alts : Alts[n] = o.type) - 1, obj |-> o]

\* A slot that holds no dispatcher, and no call under way.
NoVariant == [index |-> Len(Alts), obj |-> [type |-> "none", i |-> 0]]
NoCall == [kind |-> "none"]

Variants == {variant(o) : o \in Objects}

\* The value of an arithmetic argument converted to a parameter's type.
ConvertVal(val, from, to) ==
    IF from \in Integral /\ to \in Floating THEN Dbl(val)
    ELSE IF from \in Floating /\ to \in Integral THEN val \div 2
    ELSE val

\* The member function bodies of A and B, on parameter values p.
Body(alt, f, obj, p) ==
    CASE f = "f2" -> IF alt = "A" THEN p[1] \div 2 ELSE p[1]
      [] f = "f3" -> IF alt = "A" THEN p[1] * p[2] + Dbl(obj.i)
                                   ELSE p[1] * p[2]
      [] OTHER -> 0

\* obj.f(args...) with obj an object of type alt: the overload selected, and
\* its result on the converted arguments.
MemberInvoke(alt, obj, f, args, objConst) ==
    LET sig == Selected(alt, f, DeduceAll(args), objConst) IN
    [by |-> alt, params |-> sig.params,
     value |-> Body(alt, f, obj,
                    [n \in DOMAIN args |->
                        ConvertVal(args[n].val, args[n].base,
                                   sig.params[n].base)])]

\* A visit that always calls the instantiation for the first alternative.
visit_invoke_First(v, f, macro, args) ==
    MemberInvoke(Alts[1], v.obj, f, args, IsConst(macro.cvq))

\* std::visit at run time: calls the lambda instantiated for the
\* alternative at v.index() on the stored object.
visit_invoke(v, f, macro, args) ==
    MemberInvoke(Alts[v.index + 1], v.obj, f, args, IsConst(macro.cvq))

\* Argument lists of up to two arguments.
ValuesOf(b, vals) ==
    IF b \in Integral THEN vals
    ELSE IF b \in Floating THEN {Dbl(n) : n \in vals}
    ELSE {0}

Cats == {"lvalue", "rvalue"}

ArgExprs(bases, consts, vals) ==
    UNION {{Arg(b, c, k, v) : c \in consts, k \in Cats,
                              v \in ValuesOf(b, vals)} : b \in bases}

ArgLists(E) == {<<>>} \cup {<<a>> : a \in E} \cup {<<a, b>> : a, b \in E}

\* The dispatchers struct rtab declares, and further declarations: loose
\* dispatchers for f2, f3, ov and md, and a loose const one for g.
Decl(f, macro) == [f |-> f, macro |-> macro]
rtab ==
    {Decl("f", RT_DISPATCH_OVERLOAD)}
        \cup {Decl(f, RT_DISPATCH) : f \in {"f1", "f2", "f3", "f4", "f5"}}
Declarations ==
    rtab \cup {Decl(f, RT_DISPATCH_OVERLOAD) : f \in {"f2", "f3", "ov", "md"}}
         \cup {Decl("g", RT_DISPATCH_OVERLOAD_CONST)}

\* The arguments of the calls made at run time, and the argument shapes the
\* compiler is asked about.
RtArgs == ArgLists(ArgExprs({"int", "float", "double", "string"}, {FALSE}, Vals))
CompileArgs == ArgLists(ArgExprs(Bases, BOOLEAN, {0}))

-----------------------------------------------------------------------------
(* ClvLib::SharedThis and make_intrusive (intrusive.h), with test_struct    *)
(* of src/tests/cbmi_tests.cpp.  An object is its test_struct base and the  *)
(* use count of the control block its first shared_ptr made; a handle is a  *)
(* shared_ptr<SharedThis>, null or pointing to an object.                   *)

\* int i1 = 42; int i2 = 43;
I1Default == 42
I2Default == 43

test_struct(a, b) == [i1 |-> a, i2 |-> b]

NoObject == [alive |-> FALSE, base |-> test_struct(0, 0), use_count |-> 0]
NoShared ==
    [obj |-> [o \in Slots |-> NoObject],
     ptr |-> [p \in Slots |-> Null],
     copy |-> test_struct(0, 0)]

\* A handle copy that leaves the use count alone.
AddRef_None(objs, o) == objs

\* Copying a shared_ptr, and shared_from_this(): one more owner.
AddRef(objs, o) == [objs EXCEPT ![o].use_count = @ + 1]

\* ~shared_ptr: one owner fewer; the last owner deletes the object.
Release(objs, o) ==
    IF objs[o].use_count = 1 THEN [objs EXCEPT ![o] = NoObject]
    ELSE [objs EXCEPT ![o].use_count = @ - 1]

\* p.use_count(), and the handles that point to the object o.
use_count(p) == IF shared.ptr[p] = Null THEN 0 ELSE shared.obj[shared.ptr[p]].use_count
HandlesTo(o) == {p \in Slots : shared.ptr[p] = o}

-----------------------------------------------------------------------------
Init ==
    /\ iface \in Ifaces
    /\ ext \in [ExtIds -> [type : TypesOf(iface), val : Vals]]
    /\ \A x \in ExtIds :
        /\ ext[x].type = NamedType(iface, x)
        /\ ext[x].val \in ValsOf(ext[x].type)
    /\ heap = [h \in HandleIds \cup {Null} |-> Free]
    /\ mPoly = [c \in Slots |-> Null]
    /\ live = [c \in Slots |-> FALSE]
    /\ moved = [c \in Slots |-> FALSE]
    /\ doubleFree = FALSE
    /\ last = Op("Init", 0, 0)
    /\ rt = [c \in Slots |-> NoVariant]
    /\ call = NoCall
    /\ shared = NoShared

-----------------------------------------------------------------------------
(* Construction.                                                           *)

\* Duck c = DuckC(v): ImplCBMI(PolyT &&) with PolyT = T.
ConstructTemp(c, t, v) ==
    /\ ~live[c]
    /\ \E h \in FreeHandles :
        /\ heap' = [heap EXCEPT ![h] = Model_Value(t, v)]
        /\ mPoly' = [mPoly EXCEPT ![c] = h]
    /\ live' = [live EXCEPT ![c] = TRUE]
    /\ moved' = [moved EXCEPT ![c] = FALSE]
    /\ last' = Op("ConstructTemp", c, 0)
    /\ UNCHANGED <<shared, rt, call, iface, ext, doubleFree>>

\* Duck c = x, x a named value: ImplCBMI(PolyT &&) with PolyT = T&.
ConstructNamed(c, x) ==
    /\ ~live[c]
    /\ \E h \in FreeHandles :
        /\ heap' = [heap EXCEPT ![h] = Model_Ref(x)]
        /\ mPoly' = [mPoly EXCEPT ![c] = h]
    /\ live' = [live EXCEPT ![c] = TRUE]
    /\ moved' = [moved EXCEPT ![c] = FALSE]
    /\ last' = Op("ConstructNamed", c, x)
    /\ UNCHANGED <<shared, rt, call, iface, ext, doubleFree>>

\* Duck c = &x: ImplCBMI(PolyT *).
ConstructPtr(c, x) ==
    /\ ~live[c]
    /\ \E h \in FreeHandles :
        /\ heap' = [heap EXCEPT ![h] = Model_Ptr(x)]
        /\ mPoly' = [mPoly EXCEPT ![c] = h]
    /\ live' = [live EXCEPT ![c] = TRUE]
    /\ moved' = [moved EXCEPT ![c] = FALSE]
    /\ last' = Op("ConstructPtr", c, x)
    /\ UNCHANGED <<shared, rt, call, iface, ext, doubleFree>>

-----------------------------------------------------------------------------
(* Copy and move.  A container whose mPoly is null (it was moved from) is  *)
(* never the source of a copy or a move: poly.mPoly->Clone() would         *)
(* dereference the null pointer.                                           *)

\* ImplCBMI(const ImplCBMI &poly) : mPoly(poly.mPoly->Clone()).
CopyConstruct(c, s) ==
    /\ ~live[c]
    /\ live[s]
    /\ mPoly[s] # Null
    /\ \E h \in FreeHandles :
        /\ heap' = [heap EXCEPT ![h] = Concept_Clone(heap[mPoly[s]])]
        /\ mPoly' = [mPoly EXCEPT ![c] = h]
    /\ live' = [live EXCEPT ![c] = TRUE]
    /\ moved' = [moved EXCEPT ![c] = FALSE]
    /\ last' = Op("CopyConstruct", c, s)
    /\ UNCHANGED <<shared, rt, call, iface, ext, doubleFree>>

\* operator=(const ImplCBMI &poly): nothing when this == &poly; otherwise
\* t = poly.mPoly->Clone() and then mPoly.reset(t), which deletes the
\* handle held before.
CopyAssign(c, s) ==
    /\ live[c]
    /\ live[s]
    /\ mPoly[s] # Null
    /\ IF SelfAssign(c, s)
       THEN UNCHANGED <<heap, mPoly, doubleFree>>
       ELSE \E t \in FreeHandles :
            /\ heap' = Delete([heap EXCEPT ![t] = Concept_Clone(heap[mPoly[s]])],
                              mPoly[c])
            /\ mPoly' = [mPoly EXCEPT ![c] = ResetTo(t)]
            /\ doubleFree' = (doubleFree \/ BadDelete(mPoly[c]))
    /\ moved' = [moved EXCEPT ![c] = FALSE]
    /\ last' = Op("CopyAssign", c, s)
    /\ UNCHANGED <<shared, rt, call, iface, ext, live>>

\* ImplCBMI(ImplCBMI &&) = default: the unique_ptr move constructor.
MoveConstruct(c, s) ==
    /\ ~live[c]
    /\ live[s]
    /\ mPoly[s] # Null
    /\ mPoly' = [mPoly EXCEPT ![c] = mPoly[s], ![s] = MovedFrom(mPoly[s])]
    /\ live' = [live EXCEPT ![c] = TRUE]
    /\ moved' = [moved EXCEPT ![c] = FALSE, ![s] = TRUE]
    /\ last' = Op("MoveConstruct", c, s)
    /\ UNCHANGED <<shared, rt, call, iface, ext, heap, doubleFree>>

\* operator=(ImplCBMI &&) = default: unique_ptr move assignment,
\* reset(poly.mPoly.release()).  On self-assignment release() nulls mPoly
\* and reset() stores the pointer back, deleting nothing.
MoveAssign(c, s) ==
    /\ live[c]
    /\ live[s]
    /\ mPoly[s] # Null
    /\ IF c = s
       THEN UNCHANGED <<heap, mPoly, moved, doubleFree>>
       ELSE /\ heap' = Delete(heap, mPoly[c])
            /\ mPoly' = [mPoly EXCEPT ![c] = ResetTo(mPoly[s]),
                                      ![s] = MovedFrom(mPoly[s])]
            /\ moved' = [moved EXCEPT ![c] = FALSE, ![s] = TRUE]
            /\ doubleFree' = (doubleFree \/ BadDelete(mPoly[c]))
    /\ last' = Op("MoveAssign", c, s)
    /\ UNCHANGED <<shared, rt, call, iface, ext, live>>

\* ~ImplCBMI(): the unique_ptr destructor deletes a non-null mPoly.
Destroy(c) ==
    /\ live[c]
    /\ heap' = Delete(heap, mPoly[c])
    /\ doubleFree' = (doubleFree \/ BadDelete(mPoly[c]))
    /\ mPoly' = [mPoly EXCEPT ![c] = Null]
    /\ live' = [live EXCEPT ![c] = FALSE]
    /\ moved' = [moved EXCEPT ![c] = FALSE]
    /\ last' = Op("Destroy", c, 0)
    /\ UNCHANGED <<shared, rt, call, iface, ext>>

-----------------------------------------------------------------------------
(* Mutation of concrete values, and the caller's storage.                  *)

\* A non-const operation reaches the concrete value through the non-const
\* DelegateTo() and writes its state.
MutateVia(c, v) ==
    /\ live[c]
    /\ mPoly[c] # Null
    /\ HasState(Held(c).type)
    /\ v # Held(c).val
    /\ LET r == Model_DelegateTo(ImplCBMI_DelegateTo(c)) IN
       IF r.space = "heap"
       THEN /\ heap' = [heap EXCEPT ![r.at].val = v]
            /\ ext' = ext
       ELSE /\ ext' = [ext EXCEPT ![r.at].val = v]
            /\ heap' = heap
    /\ last' = Op("MutateVia", c, 0)
    /\ UNCHANGED <<shared, rt, call, iface, mPoly, live, moved, doubleFree>>

\* The caller writes its own named value.
MutateExt(x, v) ==
    /\ HasState(ext[x].type)
    /\ v # ext[x].val
    /\ ext' = [ext EXCEPT ![x].val = v]
    /\ last' = Op("MutateExt", 0, x)
    /\ UNCHANGED <<shared, rt, call, iface, heap, mPoly, live, moved, doubleFree>>

-----------------------------------------------------------------------------
Next ==
    \/ \E c \in Slots, t \in TypesOf(iface) : \E v \in ValsOf(t) :
            ConstructTemp(c, t, v)
    \/ \E c \in Slots, x \in ExtIds : ConstructNamed(c, x)
    \/ \E c \in Slots, x \in ExtIds : ConstructPtr(c, x)
    \/ \E c \in Slots, s \in Slots : CopyConstruct(c, s)
    \/ \E c \in Slots, s \in Slots : CopyAssign(c, s)
    \/ \E c \in Slots, s \in Slots : MoveConstruct(c, s)
    \/ \E c \in Slots, s \in Slots : MoveAssign(c, s)
    \/ \E c \in Slots : Destroy(c)
    \/ \E c \in Slots, v \in Vals : MutateVia(c, v)
    \/ \E x \in ExtIds, v \in Vals : MutateExt(x, v)

Spec == Init /\ [][Next]_vars

\* A collection of containers (std::vector<Duck>, std::unordered_map<uint64_t,
\* Duck>): the live slots are its elements.  push_back / insert_or_assign of
\* a temporary, of a named value, of a pointer and of an existing element, and
\* pop_back / erase.
NextColl ==
    \/ \E c \in Slots, t \in TypesOf(iface) : \E v \in ValsOf(t) :
            ConstructTemp(c, t, v)
    \/ \E c \in Slots, x \in ExtIds : ConstructNamed(c, x)
    \/ \E c \in Slots, x \in ExtIds : ConstructPtr(c, x)
    \/ \E c \in Slots, s \in Slots : CopyConstruct(c, s)
    \/ \E c \in Slots : Destroy(c)

SpecColl == Init /\ [][NextColl]_vars

\* The collection of the Draw test, std::vector<Draw>: the same insertions
\* and removals, over the shapes.
InitDraw ==
    /\ iface = "Draw"
    /\ ext = [x \in ExtIds |-> [type |-> NamedType("Draw", x), val |-> 0]]
    /\ heap = [h \in HandleIds \cup {Null} |-> Free]
    /\ mPoly = [c \in Slots |-> Null]
    /\ live = [c \in Slots |-> FALSE]
    /\ moved = [c \in Slots |-> FALSE]
    /\ doubleFree = FALSE
    /\ last = Op("Init", 0, 0)
    /\ rt = [c \in Slots |-> NoVariant]
    /\ call = NoCall
    /\ shared = NoShared

SpecDraw == InitDraw /\ [][NextColl]_vars

-----------------------------------------------------------------------------
(* Programs that use runtime_dispatch<A, B>.                                *)

InitRT ==
    /\ iface = "Duck"
    /\ ext = [x \in ExtIds |-> [type |-> NamedType("Duck", x), val |-> 0]]
    /\ heap = [h \in HandleIds \cup {Null} |-> Free]
    /\ mPoly = [c \in Slots |-> Null]
    /\ live = [c \in Slots |-> FALSE]
    /\ moved = [c \in Slots |-> FALSE]
    /\ doubleFree = FALSE
    /\ last = Op("Init", 0, 0)
    /\ rt = [c \in Slots |-> NoVariant]
    /\ call = NoCall
    /\ shared = NoShared

ActiveType(v) == Alts[v.index + 1]

\* rtab r{A(2)}, rtab r{B()}.
RtConstruct(c, o) ==
    /\ call = NoCall
    /\ rt[c] = NoVariant
    /\ rt' = [rt EXCEPT ![c] = variant(o)]
    /\ UNCHANGED <<shared, call, iface, ext, heap, mPoly, live, moved, doubleFree, last>>

\* r = s, both dispatchers.
RtAssign(c, s) ==
    /\ call = NoCall
    /\ rt[c] # NoVariant
    /\ rt[s] # NoVariant
    /\ rt' = [rt EXCEPT ![c] = rt[s]]
    /\ UNCHANGED <<shared, call, iface, ext, heap, mPoly, live, moved, doubleFree, last>>

\* r = A(2), r = B().
RtAssignValue(c, o) ==
    /\ call = NoCall
    /\ rt[c] # NoVariant
    /\ rt' = [rt EXCEPT ![c] = variant(o)]
    /\ UNCHANGED <<shared, call, iface, ext, heap, mPoly, live, moved, doubleFree, last>>

\* r.FUNC_NAME(args...) through a declared dispatcher, in a program that
\* compiles.  The member functions assign nothing to their object.
RtDispatch(c, d, args) ==
    /\ call = NoCall
    /\ rt[c] # NoVariant
    /\ Accepted(ActiveType(rt[c]), d.f, d.macro, args)
    /\ call' = [kind |-> "dispatch", slot |-> c, f |-> d.f, macro |-> d.macro,
                args |-> args, before |-> rt[c],
                result |-> visit_invoke(rt[c], d.f, d.macro, args)]
    /\ UNCHANGED <<shared, rt, iface, ext, heap, mPoly, live, moved, doubleFree, last>>

\* The call returns and its result is used.
RtReturn ==
    /\ call # NoCall
    /\ call' = NoCall
    /\ UNCHANGED <<shared, rt, iface, ext, heap, mPoly, live, moved, doubleFree, last>>

NextRT ==
    \/ \E c \in Slots, o \in Objects : RtConstruct(c, o)
    \/ \E c, s \in Slots : RtAssign(c, s)
    \/ \E c \in Slots, o \in Objects : RtAssignValue(c, o)
    \/ /\ call = NoCall
       /\ \E c \in Slots, d \in Declarations, args \in RtArgs :
             RtDispatch(c, d, args)
    \/ RtReturn

SpecRT == InitRT /\ [][NextRT]_vars

\* The call r.f(args...) for a dispatcher of f declared by macro, r holding
\* the object o: the compiler's verdict and, where the call compiles, what
\* it does when run.
NoResult == [by |-> "none", params |-> <<>>, value |-> 0]

Compile(o, f, macro, args) ==
    /\ call = NoCall
    /\ call' = [kind |-> "compile", active |-> o.type, obj |-> o, f |-> f,
                macro |-> macro, args |-> args,
                errors |-> DispatchErrors(o.type, f, macro, args),
                result |-> IF Accepted(o.type, f, macro, args)
                           THEN visit_invoke(variant(o), f, macro, args)
                           ELSE NoResult]
    /\ UNCHANGED <<shared, rt, iface, ext, heap, mPoly, live, moved, doubleFree, last>>

NextCC ==
    \/ /\ call = NoCall
       /\ \E o \in Objects, f \in Names, macro \in Macros,
             args \in CompileArgs : Compile(o, f, macro, args)
    \/ RtReturn

SpecCC == InitRT /\ [][NextCC]_vars

-----------------------------------------------------------------------------
(* Properties.                                                             *)

\* The container in slot c is constructed and holds a handle.
Holds(c) == live[c] /\ mPoly[c] # Null

Kind(c) == heap[mPoly[c]].kind
Target(c) == heap[mPoly[c]].target
IsCopyOp(o) == o \in {"CopyConstruct", "CopyAssign"}
IsMoveOp(o) == o \in {"MoveConstruct", "MoveAssign"}

\* C1: a container c built from a named value x (passed by value, not by
\* pointer) wraps an independent instance: a step in which the caller writes x
\* leaves every result of c's operations unchanged, and a step that mutates
\* through c leaves x unchanged.  (Such a container's handle is a Model<T&>;
\* copies of the container carry the same handle type.)
C1_NamedValueIsCopied ==
    [][\A c \in Slots, x \in ExtIds :
          (Holds(c) /\ Kind(c) = "T&" /\ Target(c) = x)
          => /\ (last'.op = "MutateExt" /\ last'.src = x) => Obs(c)' = Obs(c)
             /\ (last'.op = "MutateVia" /\ last'.dst = c) => ext'[x] = ext[x]
      ]_vars

\* C2: right after b is copied (copy construction or copy assignment) from a
\* container a built from a concrete value by copy or by move, a and b do not
\* share the storage of the concrete value.
C2_CloneIndependence ==
    (IsCopyOp(last.op) /\ last.dst # last.src /\ Kind(last.src) # "T*")
    => Model_DelegateTo(mPoly[last.dst]) # Model_DelegateTo(mPoly[last.src])

\* C3 as stated: every constructed and not yet destroyed container holds a
\* non-null handle.
C3_NeverNull == \A c \in Slots : live[c] => mPoly[c] \in Allocated

\* C3 amended: every live container that is not a moved-from container (the
\* source of a move into another container, not assigned to since) holds a
\* non-null, allocated handle wrapping one concrete value of the interface's
\* types; a moved-from container holds none.
C3_NeverNullUnlessMovedFrom ==
    \A c \in Slots :
        live[c] =>
            IF moved[c]
            THEN mPoly[c] = Null
            ELSE /\ mPoly[c] \in Allocated
                 /\ Held(c).type \in TypesOf(iface)

C3_Witness ==
    \E a \in Slots, b \in Slots :
        /\ live[a] /\ moved[a] /\ mPoly[a] = Null
        /\ Holds(b) /\ ~moved[b]
        /\ last = Op("MoveAssign", b, a)

\* C4: a step that copy-assigns a from another container b leaves a answering
\* every operation as b answered before the step (so wherever a and b answered
\* differently before, a's answers have changed); a's previous handle is
\* released and replaced by a newly allocated one rather than written to; and
\* b is unchanged: its pointer, its handle and every caller-owned value are
\* what they were, so b answers as before.  The answers are computed from the
\* concrete value reached and nothing else, so they need comparing only where
\* the values reached are not equal.
C4_AssignReplaces ==
    [][(last'.op = "CopyAssign" /\ last'.dst # last'.src) =>
       \A a \in {last'.dst}, b \in {last'.src} :
             /\ (Held(a)' = Held(b) \/ Obs(a)' = Obs(b))
             /\ mPoly'[a] # mPoly[a]
             /\ mPoly'[a] # Null
             /\ heap[mPoly'[a]] = Free
             /\ (mPoly[a] # Null => heap'[mPoly[a]] = Free)
             /\ mPoly'[b] = mPoly[b]
             /\ heap'[mPoly[b]] = heap[mPoly[b]]
             /\ ext' = ext
      ]_vars

C4_Witness ==
    /\ last.op = "CopyAssign"
    /\ last.dst # last.src
    /\ Holds(last.dst)
    /\ Holds(last.src)
    /\ Obs(last.dst) = Obs(last.src)
    /\ iface = "Duck"
    /\ Held(last.dst).type = "DuckC"
    /\ Held(last.dst).val > 0

\* C5: a step that moves a into b (move construction or move assignment)
\* leaves in b the very handle a held, and a without it; the handle record is
\* untouched, nothing is allocated, and b answers every operation as a did
\* before the step (compared where the values reached are not equal).
C5_MoveTransfers ==
    [][(IsMoveOp(last'.op) /\ last'.dst # last'.src) =>
       \A b \in {last'.dst}, a \in {last'.src} :
             /\ mPoly'[b] = mPoly[a]
             /\ mPoly'[a] # mPoly[a]
             /\ heap'[mPoly[a]] = heap[mPoly[a]]
             /\ Allocated' \subseteq Allocated
             /\ (Held(b)' = Held(a) \/ Obs(b)' = Obs(a))
      ]_vars

C5_Witness ==
    /\ IsMoveOp(last.op)
    /\ last.dst # last.src
    /\ Holds(last.dst)
    /\ live[last.src] /\ moved[last.src]

\* C6: constructing p from a pointer to x yields a handle that holds x's
\* address and no copy; and in every state the results of the operations of
\* a container that holds x's address are those of x itself.
C6_AliasSharing ==
    /\ last.op = "ConstructPtr" =>
            /\ Holds(last.dst)
            /\ Model_DelegateTo(mPoly[last.dst]) =
                    [space |-> "ext", at |-> last.src]
    /\ \A p \in Slots :
            (Holds(p) /\ Kind(p) = "T*") => Obs(p) = ObsExt(Target(p))

C6_Witness ==
    /\ last.op \in {"MutateVia", "MutateExt"}
    /\ \E p \in Slots :
        /\ Holds(p) /\ Kind(p) = "T*"
        /\ (last.op = "MutateVia" => last.dst = p)
        /\ (last.op = "MutateExt" => last.src = Target(p))
        /\ ext[Target(p)].val > 0

\* C7: a copy of a container that aliases x aliases x too, and all containers
\* that alias the same x, copies of copies included, report the same results,
\* which are those of x as it is now.
C7_CloneKeepsAlias ==
    /\ (IsCopyOp(last.op) /\ last.dst # last.src /\ Kind(last.src) = "T*")
        => /\ Kind(last.dst) = "T*"
           /\ Target(last.dst) = Target(last.src)
           /\ mPoly[last.dst] # mPoly[last.src]
    /\ \A a \in Slots, b \in Slots :
        (Holds(a) /\ Holds(b) /\ Kind(a) = "T*" /\ Kind(b) = "T*"
            /\ Target(a) = Target(b))
        => Obs(a) = Obs(b) /\ Obs(a) = ObsExt(Target(a))

C7_Witness ==
    /\ IsCopyOp(last.op)
    /\ last.dst # last.src
    /\ Holds(last.dst) /\ Holds(last.src)
    /\ Kind(last.src) = "T*"
    /\ ext[Target(last.src)].val > 0

\* C8: no two live containers hold the same handle, delete is never applied
\* to a handle already released, and the allocated handles are exactly those
\* held by live containers, so none is left when every container is destroyed.
C8_ExclusiveOwnership ==
    /\ \A a \in Slots, b \in Slots :
        (a # b /\ Holds(a) /\ Holds(b)) => mPoly[a] # mPoly[b]
    /\ ~doubleFree
    /\ Allocated = {mPoly[c] : c \in {d \in Slots : Holds(d)}}
    /\ ((\A c \in Slots : ~live[c]) => Allocated = {})

C8_Witness ==
    /\ last.op = "Destroy"
    /\ \A c \in Slots : ~live[c]
    /\ Allocated = {}

\* C9: every element of a collection filled by insertions of temporaries,
\* named values, pointers and copies of elements, and by removals, holds a
\* handle and answers the interface's operations with the results of a
\* concrete value of the interface: for the duck types walk() yields "walks
\* like a duck" and quack() yields "quacks like a duck"; and an element just
\* inserted from a named value, a pointer or another element answers as that
\* value or element does.
C9_CollectionAnswers ==
    /\ \A c \in Slots :
        live[c] =>
            /\ mPoly[c] \in Allocated
            /\ Held(c).type \in TypesOf(iface)
            /\ iface = "Duck" =>
                /\ DuckDelegate_walk(c) = "walks like a duck"
                /\ DuckDelegate_quack(c) = "quacks like a duck"
    /\ last.op \in {"ConstructNamed", "ConstructPtr"}
        => Obs(last.dst) = ObsExt(last.src)
    /\ last.op = "CopyConstruct" => Obs(last.dst) = Obs(last.src)

C9_Witness ==
    /\ iface = "Duck"
    /\ \A c \in Slots : live[c]
    /\ \E a \in Slots, b \in Slots :
        /\ Kind(a) = "T" /\ Held(a).type = "DuckB"
        /\ Kind(b) # "T"

\* C10: for every container over proc(v) = v*k, proc(i) = proc(1)*i for every
\* argument i (so proc(3) = proc(1)*3), with the factor k of the concrete
\* type held; and for every container over the two-argument proc,
\* proc(d, i) = proc(1, d*i).
C10_Forwarding ==
    \A c \in Slots :
        Holds(c) =>
            /\ iface = "Gen" =>
                /\ GenDelegate_proc(c, 3) = GenDelegate_proc(c, 1) * 3
                /\ \A i \in ProcArgs :
                    GenDelegate_proc(c, i) = GenDelegate_proc(c, 1) * i
                /\ GenDelegate_proc(c, 1) =
                    CASE Held(c).type = "Gen2Int" -> 2
                      [] Held(c).type = "Gen3Int" -> 3
                      [] Held(c).type = "Gen4" -> 4
            /\ iface = "Arg" =>
                \A d \in ProcArgs, i \in ProcArgs :
                    ArgDelegate_proc(c, d, i) = ArgDelegate_proc(c, 1, d * i)

C10_Witness ==
    /\ iface = "Gen"
    /\ \E a \in Slots, b \in Slots :
        /\ Holds(a) /\ Holds(b)
        /\ Held(a).type = "Gen3Int" /\ Kind(a) = "T"
        /\ Held(b).type = "Gen2Int" /\ Kind(b) # "T"
        /\ GenDelegate_proc(a, 3) = 9
        /\ GenDelegate_proc(b, 3) = 6

\* C11: every shape container answers draw() by the implementation the call
\* draw_fn(shape) resolves to: a Circle by its member ("MemberCircle"), a
\* Square by draw_fn(const Square &) ("Square"), a Line by
\* draw_fn(const Line &) and not by its member ("Line"); and a container
\* copied from another answers as its source does.
C11_DrawResolution ==
    /\ \A c \in Slots :
        Holds(c) =>
            DrawInterface_draw(c) =
                CASE Held(c).type = "Circle" -> "MemberCircle"
                  [] Held(c).type = "Square" -> "Square"
                  [] Held(c).type = "Line" -> "Line"
    /\ last.op = "CopyConstruct" =>
            DrawInterface_draw(last.dst) = DrawInterface_draw(last.src)

C11_Witness ==
    /\ last.op = "CopyConstruct"
    /\ Kind(last.src) = "T"
    /\ Held(last.src).type = "Line"
    /\ DrawInterface_draw(last.dst) = "Line"

\* C12 as claimed: a step allocates exactly one handle when it constructs a
\* container from a value or a pointer, copy-constructs one or copy-assigns
\* one, and none otherwise (a move, a destruction, a write); summed over a
\* run, the allocations number the constructions plus the copies.
C12_OneAllocationPerCopy ==
    [][Cardinality(Allocated' \ Allocated) =
            IF last'.op \in {"ConstructTemp", "ConstructNamed", "ConstructPtr",
                             "CopyConstruct", "CopyAssign"}
            THEN 1 ELSE 0
      ]_vars

\* C12 amended: as above, except that a copy assignment of a container to
\* itself allocates nothing; a copy assignment from another container
\* allocates exactly one handle.
C12_OneAllocationPerClone ==
    [][Cardinality(Allocated' \ Allocated) =
            IF \/ last'.op \in {"ConstructTemp", "ConstructNamed", "ConstructPtr",
                                "CopyConstruct"}
               \/ last'.op = "CopyAssign" /\ last'.dst # last'.src
            THEN 1 ELSE 0
      ]_vars

C12_Witness ==
    /\ last.op = "CopyAssign"
    /\ last.dst = last.src
    /\ \E c \in Slots : c # last.dst /\ Holds(c) /\ Kind(c) = "T*"

\* C13: a step that destroys a container c holding a handle releases that
\* handle, and with it the concrete value an owning handle contains; it
\* changes no caller-owned value, and every other container keeps its
\* pointer, its handle and its answers, the aliases of the storage c referred
\* to among them.
C13_DestroyReleases ==
    [][(last'.op = "Destroy" /\ mPoly[last'.dst] # Null) =>
       \A c \in {last'.dst} :
             /\ heap'[mPoly[c]] = Free
             /\ mPoly[c] \notin Allocated'
             /\ ~live'[c]
             /\ ext' = ext
             /\ \A d \in Slots \ {c} :
                    /\ mPoly'[d] = mPoly[d]
                    /\ heap'[mPoly[d]] = heap[mPoly[d]]
                    /\ Holds(d) =>
                        /\ Holds(d)'
                        /\ (Held(d)' = Held(d) \/ Obs(d)' = Obs(d))
      ]_vars

C13_Witness ==
    /\ last.op = "Destroy"
    /\ ~live[last.dst]
    /\ iface = "Duck"
    /\ \E d \in Slots :
        /\ Holds(d)
        /\ Kind(d) = "T*"
        /\ ext[Target(d)].val > 0
        /\ Obs(d) = ObsExt(Target(d))
    /\ Cardinality(Allocated) = NumSlots - 1

\* C14: for a container c that was moved from and not assigned since: a step
\* that destroys c releases no handle and changes no other container; a step
\* that copy-assigns c from s leaves c holding a new handle and answering as
\* s did; a step that move-assigns c from s leaves c holding the handle s
\* held and answering as s did.  No step of these deletes a released handle.
C14_MovedFromUsable ==
    [][(last'.op \in {"Destroy", "CopyAssign", "MoveAssign"}
            /\ live[last'.dst] /\ moved[last'.dst]) =>
       \A c \in {last'.dst}, s \in {last'.src} :
             /\ doubleFree' = doubleFree
             /\ last'.op = "Destroy" =>
                    /\ heap' = heap
                    /\ \A d \in Slots \ {c} : mPoly'[d] = mPoly[d]
                    /\ ~live'[c]
             /\ last'.op = "CopyAssign" =>
                    /\ Holds(c)'
                    /\ mPoly'[c] \notin Allocated
                    /\ heap'[mPoly'[c]].kind = heap[mPoly[s]].kind
                    /\ (Held(c)' = Held(s) \/ Obs(c)' = Obs(s))
                    /\ ~moved'[c]
             /\ last'.op = "MoveAssign" =>
                    /\ Holds(c)'
                    /\ mPoly'[c] = mPoly[s]
                    /\ Allocated' = Allocated
                    /\ (Held(c)' = Held(s) \/ Obs(c)' = Obs(s))
                    /\ ~moved'[c]
      ]_vars

C14_Witness ==
    /\ IsMoveOp(last.op)
    /\ last.dst # last.src
    /\ live[last.src] /\ moved[last.src] /\ mPoly[last.src] = Null
    /\ Holds(last.dst)
    /\ ENABLED Destroy(last.src)
    /\ ENABLED CopyAssign(last.src, last.dst)
    /\ ENABLED MoveAssign(last.src, last.dst)

-----------------------------------------------------------------------------
\* C15: a dispatched call runs the implementation of the alternative that is
\* active when it is made and returns that implementation's result: through
\* the strict dispatchers of rtab, f3(i, d) is i * d + offset on a
\* dispatcher holding A(offset) and i * d on one holding B, and f2(d) is
\* d / 2 on A and d on B.
C15_DispatchRoutes ==
    call.kind = "dispatch" =>
        LET o == call.before.obj IN
        /\ call.result.by = o.type
        /\ (call.f = "f3" /\ call.macro = RT_DISPATCH) =>
                call.result.value =
                    call.args[1].val * call.args[2].val
                        + (IF o.type = "A" THEN Dbl(o.i) ELSE 0)
        /\ (call.f = "f2" /\ call.macro = RT_DISPATCH) =>
                call.result.value =
                    IF o.type = "A" THEN call.args[1].val \div 2
                    ELSE call.args[1].val

\* f3(1, 1.0) through the strict dispatcher on a dispatcher holding A(1),
\* in a collection that also holds a B: the result is 2.0.
C15_Witness ==
    /\ call.kind = "dispatch"
    /\ call.f = "f3"
    /\ call.macro = RT_DISPATCH
    /\ call.before = variant(ObjA(1))
    /\ call.args[1].val = 1
    /\ call.args[2].val = Dbl(1)
    /\ call.result.value = Dbl(2)
    /\ \E c \in Slots : rt[c] = variant(ObjB)

-----------------------------------------------------------------------------
\* C18: every dispatcher that exists has exactly one active alternative, the
\* one of the declared alternatives whose object it stores, and a dispatched
\* call, strict or loose, leaves the dispatcher it is made on as it was:
\* the active alternative changes by construction and assignment alone.
C18_OneActive ==
    /\ \A c \in Slots :
        rt[c] # NoVariant =>
            /\ rt[c].index \in 0..(Len(Alts) - 1)
            /\ {n \in DOMAIN Alts : Alts[n] = rt[c].obj.type} = {rt[c].index + 1}
    /\ call.kind = "dispatch" =>
            /\ rt[call.slot].index = call.before.index
            /\ rt[call.slot] = call.before

\* A loose call under way on a dispatcher that holds a B, next to one that
\* holds an A.
C18_Witness ==
    /\ call.kind = "dispatch"
    /\ ~call.macro.strict
    /\ call.before.obj.type = "B"
    /\ rt[call.slot].index = 1
    /\ \E c \in Slots : rt[c] # NoVariant /\ rt[c].index = 0 /\ rt[c].obj.type = "A"

-----------------------------------------------------------------------------
(* Strict dispatch.                                                         *)

\* A type without its reference and its const.
Strip(t) == Ty(t.base, FALSE, "val")
StripAll(types) == [n \in DOMAIN types |-> Strip(types[n])]

\* f is declared once in alt, with argument types that strip to its
\* parameter types.
SameStripped(alt, f, args) ==
    /\ Cardinality(Members(alt, f)) = 1
    /\ \A s \in Members(alt, f) :
            StripAll(DeduceAll(args)) = StripAll(s.params)

\* f is one member function without qualifiers in every alternative, and the
\* parameter and argument types can all be value-initialized.
Comparable(f, args) ==
    /\ \A alt \in AltSet :
        /\ Cardinality(Members(alt, f)) = 1
        /\ \A s \in Members(alt, f) :
            /\ s.qual = ""
            /\ \A n \in DOMAIN s.params : DefaultConstructible(s.params[n].base)
    /\ \A n \in DOMAIN args : DefaultConstructible(args[n].base)

-----------------------------------------------------------------------------
\* C17: the verdict on a dispatched call does not depend on the active
\* alternative; a call is accepted only if it is valid against every
\* alternative: it is rejected when some alternative lacks the operation
\* and, under a strict macro, when its stripped argument types differ from
\* some alternative's stripped parameter types.  That B alone has fn and A
\* alone has only rejects no call of another operation.
C17_EveryAlternative ==
    call.kind = "compile" =>
        LET types == DeduceAll(call.args) IN
        /\ \A active \in AltSet :
                call.errors = DispatchErrors(active, call.f, call.macro, call.args)
        /\ call.errors = {} =>
                \A alt \in AltSet : Lambda(alt, call.f, call.macro, types) = {}
        /\ (\E alt \in AltSet : Members(alt, call.f) = {}) => call.errors # {}
        /\ (/\ call.macro.strict
            /\ \E alt \in AltSet : ~SameStripped(alt, call.f, call.args)) =>
                call.errors # {}
        /\ call.f \notin {"fn", "only"} => "no member" \notin call.errors

\* r.fn() through a dispatcher of fn, r holding a B: B has fn, A has not,
\* and the call is rejected.
C17_Witness ==
    /\ call.kind = "compile"
    /\ call.f = "fn"
    /\ call.args = <<>>
    /\ call.active = "B"
    /\ Members("B", "fn") # {}
    /\ call.errors = {"no member"}

-----------------------------------------------------------------------------
(* Loose dispatch.                                                          *)

\* The overloads of f in alt that the arguments can call, and those of them
\* that are better than every other.
Candidates(alt, f, types, objConst) ==
    {s \in Members(alt, f) : Viable(s, types, objConst)}

Preferred(alt, f, types, objConst) ==
    {s \in Candidates(alt, f, types, objConst) :
        \A t \in Candidates(alt, f, types, objConst) \ {s} : Better(s, t, types)}

\* C19 as claimed, under RT_DISPATCH_OVERLOAD: a call is accepted whenever
\* each alternative has some overload callable with the arguments.
C19_LooseAnyCallable ==
    (/\ call.kind = "compile"
     /\ call.macro = RT_DISPATCH_OVERLOAD
     /\ \A alt \in AltSet :
            Candidates(alt, call.f, DeduceAll(call.args), FALSE) # {}) =>
        call.errors = {}

\* C19: loose dispatch makes no comparison of argument types.  A call is
\* accepted exactly when overload resolution in every alternative finds one
\* best overload for the forwarded arguments and the overloads found return
\* one type; the accepted call runs the overload found in the active
\* alternative, on the stored object, as a direct call would.
C19_LooseResolution ==
    (call.kind = "compile" /\ ~call.macro.strict) =>
        LET types == DeduceAll(call.args)
            objConst == IsConst(call.macro.cvq)
        IN
        /\ AssertMessage \notin call.errors
        /\ call.errors = {} <=>
            /\ \A alt \in AltSet :
                    Cardinality(Preferred(alt, call.f, types, objConst)) = 1
            /\ \A a, b \in AltSet :
                    \A s \in Preferred(a, call.f, types, objConst),
                       t \in Preferred(b, call.f, types, objConst) : s.ret = t.ret
        /\ call.errors = {} =>
            /\ call.result.by = call.obj.type
            /\ \E s \in Preferred(call.obj.type, call.f, types, objConst) :
                    call.result.params = s.params
            /\ call.result =
                    MemberInvoke(call.obj.type, call.obj, call.f, call.args, objConst)

\* r.ov(1L) through RT_DISPATCH_OVERLOAD(ov): ov(int) and ov(double) can
\* both be called with a long, neither is better, and the call is rejected.
C19_Witness ==
    /\ call.kind = "compile"
    /\ call.macro = RT_DISPATCH_OVERLOAD
    /\ call.f = "ov"
    /\ call.args = <<Arg("long", FALSE, "rvalue", 0)>>
    /\ \A alt \in AltSet :
            Cardinality(Candidates(alt, "ov", DeduceAll(call.args), FALSE)) = 2
    /\ call.errors = {"ambiguous"}

-----------------------------------------------------------------------------
\* C20: RT_DISPATCH_CONST, RT_DISPATCH_NOEXCEPT and RT_DISPATCH_CNE, declared
\* for an operation that every alternative implements as one member
\* function with the macro's qualifiers, accept a call whose argument types
\* are exactly the parameter types and run the active alternative's member
\* function.
C20_QualifiedVariants ==
    (/\ call.kind = "compile"
     /\ call.macro \in {RT_DISPATCH_CONST, RT_DISPATCH_NOEXCEPT, RT_DISPATCH_CNE}
     /\ \A alt \in AltSet :
            /\ Cardinality(Members(alt, call.f)) = 1
            /\ \A s \in Members(alt, call.f) :
                /\ s.qual = call.macro.cvq
                /\ DeduceAll(call.args) = s.params) =>
        /\ call.errors = {}
        /\ call.result.by = call.obj.type

-----------------------------------------------------------------------------
(* Programs that use SharedThis<test_struct>.                               *)

FreeObjects ==
    {o \in Slots : ~shared.obj[o].alive /\ \A g \in Slots :
                        ~shared.obj[g].alive => o <= g}

\* The constructor arguments of the tests: none, or two ints.
CreateArgs ==
    {test_struct(I1Default, I2Default)} \cup {test_struct(a, b) : a, b \in Vals}

\* auto s = SharedThis::Create(args...), auto s = make_intrusive<T>(args...):
\* ptr(new SharedThis(args...)).
Create(p, b) ==
    /\ shared.ptr[p] = Null
    /\ \E o \in FreeObjects :
        shared' = [shared EXCEPT
                     !.obj[o] = [alive |-> TRUE, base |-> b, use_count |-> 1],
                     !.ptr[p] = o]
    /\ UNCHANGED <<rt, call, iface, ext, heap, mPoly, live, moved, doubleFree, last>>

\* auto q = p->GetShared(): shared_from_this().
GetShared(p, q) ==
    /\ shared.ptr[p] # Null
    /\ shared.ptr[q] = Null
    /\ shared' = [shared EXCEPT !.obj = AddRef(@, shared.ptr[p]),
                                !.ptr[q] = shared.ptr[p]]
    /\ UNCHANGED <<rt, call, iface, ext, heap, mPoly, live, moved, doubleFree, last>>

\* test_fn(p, i) entered: its parameter q is a copy of the handle p.
CopyHandle(p, q) ==
    /\ shared.ptr[p] # Null
    /\ shared.ptr[q] = Null
    /\ shared' = [shared EXCEPT !.obj = AddRef(@, shared.ptr[p]),
                                !.ptr[q] = shared.ptr[p]]
    /\ UNCHANGED <<rt, call, iface, ext, heap, mPoly, live, moved, doubleFree, last>>

\* A handle goes out of scope: the return from test_fn, the end of a test.
DestroyHandle(p) ==
    /\ shared.ptr[p] # Null
    /\ shared' = [shared EXCEPT !.obj = Release(@, shared.ptr[p]),
                                !.ptr[p] = Null]
    /\ UNCHANGED <<rt, call, iface, ext, heap, mPoly, live, moved, doubleFree, last>>

\* p->i1 = i; p->i2 = i; in test_fn, and b.i1 = i; b.i2 = i; on the
\* reference *s in test_fn_slice_ref.
MutateShared(p, i) ==
    /\ shared.ptr[p] # Null
    /\ shared' = [shared EXCEPT !.obj[shared.ptr[p]].base = test_struct(i, i)]
    /\ UNCHANGED <<rt, call, iface, ext, heap, mPoly, live, moved, doubleFree, last>>

\* test_fn_slice(*s): the parameter b is a copy of the test_struct base.
SliceCopy(p) ==
    /\ shared.ptr[p] # Null
    /\ shared' = [shared EXCEPT !.copy = shared.obj[shared.ptr[p]].base]
    /\ UNCHANGED <<rt, call, iface, ext, heap, mPoly, live, moved, doubleFree, last>>

NextShared ==
    \/ \E p \in Slots, b \in CreateArgs : Create(p, b)
    \/ \E p, q \in Slots : GetShared(p, q)
    \/ \E p, q \in Slots : CopyHandle(p, q)
    \/ \E p \in Slots : DestroyHandle(p)
    \/ \E p \in Slots, i \in Vals : MutateShared(p, i)
    \/ \E p \in Slots : SliceCopy(p)

SpecShared == InitRT /\ [][NextShared]_vars

-----------------------------------------------------------------------------
\* C25: the use count of every object made by Create or make_intrusive is
\* the number of live handles to it (1 after creation, one more for each
\* GetShared() and each handle copy, one fewer for each handle destroyed);
\* the object lives exactly as long as some handle points to it; reading
\* or writing the object through a reference and copying its base change no
\* count; and all handles to one object see the same members.
C25_UseCount ==
    /\ \A o \in Slots :
        /\ shared.obj[o].use_count = Cardinality(HandlesTo(o))
        /\ shared.obj[o].alive <=> HandlesTo(o) # {}
    /\ \A p \in Slots :
        shared.ptr[p] # Null =>
            /\ use_count(p) = Cardinality({q \in Slots : shared.ptr[q] = shared.ptr[p]})
            /\ use_count(p) >= 1
    /\ \A p, q \in Slots :
        (shared.ptr[p] # Null /\ shared.ptr[p] = shared.ptr[q]) =>
            shared.obj[shared.ptr[p]].base = shared.obj[shared.ptr[q]].base

\* Two handles to one object whose members were written after the second
\* handle was made and whose base was copied: the use count is 2.
C25_Witness ==
    \E p, q \in Slots :
        /\ p # q
        /\ shared.ptr[p] # Null
        /\ shared.ptr[q] = shared.ptr[p]
        /\ use_count(p) = 2
        /\ shared.obj[shared.ptr[p]].base = test_struct(1, 1)
        /\ shared.copy = test_struct(I1Default, I2Default)

-----------------------------------------------------------------------------
(* ClvLib::ci_char_traits, ci_string and ci_string_view                     *)
(* (src/src/ci_string.h).  A character is its code, a string the sequence   *)
(* of its characters, a buffer the sequence of characters of an array; the  *)
(* pointer s + i into a buffer is the index i, counted from 0.  Reading a   *)
(* buffer past its end is undefined: any character may be found there.      *)

NUL == 0
Chars == {NUL, 33, 65, 97, 98}          \* '\0', '!', 'A', 'a', 'b'

Strings == UNION {[1..n -> Chars] : n \in 0..MaxLen}

\* toupper in the "C" locale.
toupper(c) == IF c \in 97..122 THEN c - 32 ELSE c

eq(c1, c2) == toupper(c1) = toupper(c2)
ne(c1, c2) == toupper(c1) # toupper(c2)
lt(c1, c2) == toupper(c1) < toupper(c2)

\* data() of a std::basic_string: its characters and a terminator.
Data(s) == s \o <<NUL>>
Min(a, b) == IF a <= b THEN a ELSE b

\* *(s + i).
At(b, i) == IF i < Len(b) THEN {b[i + 1]} ELSE Chars

\* while (n-- && s1 && s2 && eq(*s1++, *s2++)); as the index both pointers
\* have when the loop is left: every turn reads both characters and then
\* increments both pointers, whether or not the characters are equal.
RECURSIVE compare_loop(_, _, _, _)
compare_loop(s1, s2, i, n) ==
    IF n = 0 THEN i
    ELSE IF eq(s1[i + 1], s2[i + 1]) THEN compare_loop(s1, s2, i + 1, n - 1)
    ELSE i + 1

\* ci_char_traits::compare: return *s1 - *s2 at the pointers the loop left,
\* as the set of values it can return.
compare(s1, s2, n) ==
    {c1 - c2 : c1 \in At(s1, compare_loop(s1, s2, 0, n)),
               c2 \in At(s2, compare_loop(s1, s2, 0, n))}

\* while (n-- > 0 && ne(*s, a)) ++s; as the index s has when the loop is
\* left.
RECURSIVE find_loop(_, _, _, _)
find_loop(s, i, n, a) ==
    IF n > 0 /\ ne(s[i + 1], a) THEN find_loop(s, i + 1, n - 1, a) ELSE i

\* ci_char_traits::find: return s, a pointer that is never null.
find(s, n, a) == [null |-> FALSE, at |-> find_loop(s, 0, n, a)]

\* The highest index find dereferences, -1 if it dereferences nothing.
find_read(s, n, a) == Min(find_loop(s, 0, n, a), n - 1)

\* std::basic_string<char, ci_char_traits>: compare(str) calls
\* traits_type::compare on the common length and, on 0, compares the sizes;
\* operator== is compare(str) == 0; find(c) yields npos for an empty string,
\* and otherwise calls traits_type::find and yields npos on a null result.
string_compare(x, y) ==
    {IF r = 0 THEN Len(x) - Len(y) ELSE r :
        r \in compare(Data(x), Data(y), Min(Len(x), Len(y)))}

npos == 0 - 1
string_find(x, a) ==
    IF Len(x) = 0 THEN npos
    ELSE LET p == find(Data(x), Len(x), a) IN IF p.null THEN npos ELSE p.at

\* A string view: length characters from data() = buf + off.
View(b, off, len) == [buf |-> b, off |-> off, len |-> len]
ViewOf(s) == View(Data(s), 0, Len(s))
Views == [buf : Strings, off : 0..MaxLen, len : 0..MaxLen]

\* A construction from a pointer that copies up to the first terminator.
basic_string_cstr(b, off, len) ==
    LET stop == {n \in 0..(len - 1) : b[off + n + 1] = NUL}
        m == IF stop = {} THEN len
             ELSE CHOOSE n \in stop : \A k \in stop : n <= k
    IN  [n \in 1..m |-> b[off + n]]

\* std::basic_string(const char *s, size_type n): the n characters at s.
basic_string(b, off, len) == [n \in 1..len |-> b[off + n]]

\* std::string to_string(ci_string_view str).
to_string_ci(str) == basic_string(str.buf, str.off, str.len)

\* ci_string to_ci_str(std::string_view str).
to_ci_str(str) == basic_string(str.buf, str.off, str.len)

\* std::hash<std::string>, as a polynomial of the characters.
RECURSIVE std_hash(_)
std_hash(s) ==
    IF s = <<>> THEN 7
    ELSE (std_hash(SubSeq(s, 1, Len(s) - 1)) * 31 + s[Len(s)]) % 65536

\* A hash of the characters as they are.
hash_Raw(str) == std_hash([n \in 1..str.len |-> str.buf[str.off + n]])

\* std::hash<ci_string> and std::hash<ci_string_view>: std::transform of
\* the characters through std::toupper into up, then std::hash<std::string>.
hash(str) == std_hash([n \in 1..str.len |-> toupper(str.buf[str.off + n])])

-----------------------------------------------------------------------------
(* Uses of ci_string.                                                       *)

\* s1 == s2, s1.compare(s2), s1.find(a) on ci_strings.
CiEqual(x, y, a) ==
    /\ call = NoCall
    /\ \E r \in string_compare(x, y) :
        call' = [kind |-> "equal", x |-> x, y |-> y, a |-> a, compare |-> r,
                 equal |-> (r = 0), find |-> string_find(x, a)]
    /\ UNCHANGED <<shared, rt, iface, ext, heap, mPoly, live, moved, doubleFree, last>>

\* ci_char_traits::compare(s1, s2, n) on two arrays of at least n
\* characters.
CiCompare(s1, s2, n) ==
    /\ call = NoCall
    /\ n <= Min(Len(s1), Len(s2))
    /\ \E r \in compare(s1, s2, n) :
        call' = [kind |-> "compare", s1 |-> s1, s2 |-> s2, n |-> n,
                 result |-> r, read |-> compare_loop(s1, s2, 0, n)]
    /\ UNCHANGED <<shared, rt, iface, ext, heap, mPoly, live, moved, doubleFree, last>>

\* ci_char_traits::find(s, n, a) on an array of at least n characters.
CiFind(s, n, a) ==
    /\ call = NoCall
    /\ n <= Len(s)
    /\ call' = [kind |-> "find", s |-> s, n |-> n, a |-> a,
                result |-> find(s, n, a), read |-> find_read(s, n, a)]
    /\ UNCHANGED <<shared, rt, iface, ext, heap, mPoly, live, moved, doubleFree, last>>

\* std::hash<ci_string>()(x), std::hash<ci_string>()(y) and
\* std::hash<ci_string_view>() of a view of x.
CiHash(x, y) ==
    /\ call = NoCall
    /\ call' = [kind |-> "hash", x |-> x, y |-> y,
                hx |-> hash(ViewOf(x)), hy |-> hash(ViewOf(y)),
                hv |-> hash(View(x, 0, Len(x)))]
    /\ UNCHANGED <<shared, rt, iface, ext, heap, mPoly, live, moved, doubleFree, last>>

\* to_string(v) of a view, to_ci_str of its result, and to_string of that.
CiConvert(v) ==
    /\ call = NoCall
    /\ v.off + v.len <= Len(v.buf)
    /\ call' = [kind |-> "convert", v |-> v,
                str |-> to_string_ci(v),
                back |-> to_ci_str(ViewOf(to_string_ci(v))),
                again |-> to_string_ci(ViewOf(to_ci_str(ViewOf(to_string_ci(v)))))]
    /\ UNCHANGED <<shared, rt, iface, ext, heap, mPoly, live, moved, doubleFree, last>>

NextCI ==
    \/ /\ call = NoCall
       /\ \E x, y \in Strings, a \in Chars : CiEqual(x, y, a)
    \/ /\ call = NoCall
       /\ \E s1, s2 \in Strings, n \in 0..MaxLen : CiCompare(s1, s2, n)
    \/ /\ call = NoCall
       /\ \E s \in Strings, n \in 0..MaxLen, a \in Chars : CiFind(s, n, a)
    \/ /\ call = NoCall
       /\ \E x, y \in Strings : CiHash(x, y)
    \/ /\ call = NoCall
       /\ \E v \in Views : CiConvert(v)
    \/ RtReturn

SpecCI == InitRT /\ [][NextCI]_vars

-----------------------------------------------------------------------------
(* ci_string properties.                                                    *)

Sign(n) == IF n < 0 THEN 0 - 1 ELSE IF n > 0 THEN 1 ELSE 0

\* The positions among the first n where two character arrays differ after
\* case folding, and the first of a non-empty set of positions.
Differ(s1, s2, n) == {i \in 1..n : toupper(s1[i]) # toupper(s2[i])}
First(S) == CHOOSE i \in S : \A j \in S : i <= j

\* C21: two ci_strings compare equal if and only if they have the same
\* length and the same characters after case folding at every position.
C21_CaseInsensitiveEquality ==
    call.kind = "equal" =>
        (call.equal <=>
            /\ Len(call.x) = Len(call.y)
            /\ Differ(call.x, call.y, Len(call.x)) = {})

\* C22: compare(s1, s2, n) is zero when the first n characters are pairwise
\* equal after case folding, and otherwise has the sign of the difference
\* of the case-folded characters at the first position where they differ.
C22_CompareOrdering ==
    call.kind = "compare" =>
        IF Differ(call.s1, call.s2, call.n) = {}
        THEN call.result = 0
        ELSE LET k == First(Differ(call.s1, call.s2, call.n)) IN
             /\ Sign(call.result) =
                    Sign(toupper(call.s1[k]) - toupper(call.s2[k]))
             /\ (call.result < 0) = lt(call.s1[k], call.s2[k])

\* C29: compare(s1, s2, n) dereferences no index from n on.
C29_CompareReadsWithinN ==
    call.kind = "compare" => call.read < call.n

\* C30: find(s, n, a) returns the first position among the first n whose
\* character equals a ignoring case, a null pointer when there is none (so
\* that a string search yields npos), and dereferences no index from n on.
C30_FindFirstOrNull ==
    LET match == {i \in 1..call.n : eq(call.s[i], call.a)} IN
    /\ call.kind = "find" =>
        /\ match # {} => (~call.result.null /\ call.result.at = First(match) - 1)
        /\ match = {} => call.result.null
        /\ call.read < call.n
    /\ call.kind = "equal" =>
        ((\A i \in 1..Len(call.x) : ne(call.x[i], call.a)) => call.find = npos)

-----------------------------------------------------------------------------
\* C23: two strings that are equal ignoring case have the same hash, the
\* hash of a ci_string is the std::string hash of its upper-cased
\* characters, and the ci_string_view hash of the same characters is the
\* same value.
C23_HashConsistent ==
    call.kind = "hash" =>
        /\ (/\ Len(call.x) = Len(call.y)
            /\ Differ(call.x, call.y, Len(call.x)) = {}) => call.hx = call.hy
        /\ call.hx = std_hash([n \in DOMAIN call.x |-> toupper(call.x[n])])
        /\ call.hv = call.hx

\* The hashes of "ab" and "Ab": different strings, equal ignoring case.
C23_Witness ==
    /\ call.kind = "hash"
    /\ call.x = <<97, 98>>
    /\ call.y = <<65, 98>>
    /\ call.hx = call.hy
    /\ call.hx # std_hash(call.x)

\* C24: to_string(s) has exactly the characters of s, in their case;
\* to_ci_str(to_string(s)) has them too and compares equal to s; and
\* to_string(to_ci_str(t)) is t, character for character.
C24_RoundTrip ==
    call.kind = "convert" =>
        /\ Len(call.str) = call.v.len
        /\ \A n \in 1..call.v.len : call.str[n] = call.v.buf[call.v.off + n]
        /\ call.back = call.str
        /\ string_compare(call.back, call.str) = {0}
        /\ call.again = call.str

\* "aA" converted and back: the case of each character is kept.
C24_Witness ==
    /\ call.kind = "convert"
    /\ call.v.len = 2
    /\ call.str = <<97, 65>>
    /\ call.back = <<97, 65>>
    /\ call.again = <<97, 65>>

-----------------------------------------------------------------------------
(* vector_to_tuple and the tuple transforms (src/src/tuple_help.h).  An     *)
(* index sequence is the sequence of its indices, a vector the sequence of  *)
(* its elements, v[i] the element at index i counted from 0, and a          *)
(* reference to an element of the vector the index it refers to.            *)

\* A helper that adds each index after those generated so far.
RECURSIVE make_index_sequence_range_helper_Append(_, _, _)
make_index_sequence_range_helper_Append(Start, N, Indices) ==
    IF N = 0 THEN Indices
    ELSE make_index_sequence_range_helper_Append(Start, N - 1,
                                                 Indices \o <<Start + N - 1>>)

\* make_index_sequence_range_helper<Start, N, Indices...>: derives from
\* <Start, N - 1, Start + N - 1, Indices...>; for N = 0, type is
\* std::index_sequence<Indices...>.
RECURSIVE make_index_sequence_range_helper(_, _, _)
make_index_sequence_range_helper(Start, N, Indices) ==
    IF N = 0 THEN Indices
    ELSE make_index_sequence_range_helper(Start, N - 1,
                                          <<Start + N - 1>> \o Indices)

make_index_sequence_range(Start, N) ==
    make_index_sequence_range_helper(Start, N, <<>>)

\* std::make_index_sequence<N>: 0 .. N-1.
make_index_sequence(N) == [k \in 1..N |-> k - 1]

\* std::make_tuple(v[Is]...), std::make_tuple(std::ref(v[Is])...).
vector_to_tuple_impl(v, Is) == [k \in DOMAIN Is |-> v[Is[k] + 1]]
vector_to_tuple_impl_ref(v, Is) == [k \in DOMAIN Is |-> [at |-> Is[k]]]

\* The three forms of vector_to_tuple, as the index sequence each passes on.
vector_to_tuple(form, Start, N, Is) ==
    CASE form = "N" -> make_index_sequence(N)
      [] form = "Start,N" -> make_index_sequence_range(Start, N)
      [] form = "custom" -> Is

\* The vectors, and the custom index sequences of up to three indices.
Vectors == UNION {[1..n -> Vals] : n \in 0..MaxArg}
Picks == UNION {[1..n -> 0..(MaxArg - 1)] : n \in 0..3}

\* The tuples of up to two types the transforms are applied to.
TupleTypes ==
    LET E == {Ty(b, c, r) : b \in {"int", "double", "string"},
                            c \in BOOLEAN, r \in {"val", "lref", "rref"}}
    IN  {<<>>} \cup {<<t>> : t \in E} \cup {<<t, u>> : t, u \in E}

\* vector_to_tuple<...>(v) and vector_to_tuple_ref<...>(v), every index
\* requested being one of v.
VectorToTuple(form, v, Start, N, Is) ==
    /\ call = NoCall
    /\ \A k \in DOMAIN vector_to_tuple(form, Start, N, Is) :
            vector_to_tuple(form, Start, N, Is)[k] < Len(v)
    /\ call' = [kind |-> "vector", form |-> form, v |-> v, start |-> Start,
                n |-> N, seq |-> Is,
                indices |-> vector_to_tuple(form, Start, N, Is),
                value |-> vector_to_tuple_impl(v,
                              vector_to_tuple(form, Start, N, Is)),
                ref |-> vector_to_tuple_impl_ref(v,
                              vector_to_tuple(form, Start, N, Is))]
    /\ UNCHANGED <<shared, rt, iface, ext, heap, mPoly, live, moved, doubleFree, last>>

\* remove_reference_tuple_t<std::tuple<Ts...>> and
\* remove_cv_tuple_t<std::tuple<Ts...>>.
TupleTransform(types) ==
    /\ call = NoCall
    /\ call' = [kind |-> "transform", types |-> types,
                remove_reference |->
                    remove_reference_tuple_t([ok |-> TRUE, types |-> types]),
                remove_cv |->
                    remove_cv_tuple_t([ok |-> TRUE, types |-> types])]
    /\ UNCHANGED <<shared, rt, iface, ext, heap, mPoly, live, moved, doubleFree, last>>

NextTuple ==
    \/ /\ call = NoCall
       /\ \E v \in Vectors, N \in 0..MaxArg : VectorToTuple("N", v, 0, N, <<>>)
    \/ /\ call = NoCall
       /\ \E v \in Vectors, Start \in 0..MaxArg, N \in 0..MaxArg :
             VectorToTuple("Start,N", v, Start, N, <<>>)
    \/ /\ call = NoCall
       /\ \E v \in Vectors, Is \in Picks : VectorToTuple("custom", v, 0, 0, Is)
    \/ /\ call = NoCall
       /\ \E types \in TupleTypes : TupleTransform(types)
    \/ RtReturn

SpecTuple == InitRT /\ [][NextTuple]_vars

-----------------------------------------------------------------------------
\* C26: remove_reference_tuple_t<tuple<Ts...>> is
\* tuple<remove_reference_t<Ts>...>: the reference of each element type is
\* removed and its const is kept.
C26_RemoveReferenceOnly ==
    call.kind = "transform" =>
        /\ call.remove_reference.ok
        /\ call.remove_reference.types =
                [n \in DOMAIN call.types |->
                    [call.types[n] EXCEPT !.ref = "val"]]

\* C27: vector_to_tuple<N>(v) is (v[0], ..., v[N-1]); vector_to_tuple<Start,
\* N>(v) is (v[Start], ..., v[Start+N-1]), its index sequence being Start,
\* ..., Start+N-1 in ascending order; vector_to_tuple(v,
\* custom_index_sequence<I...>) is (v[I]...) in the order given; and the
\* _ref forms refer to the same positions of v.
C27_VectorToTuple ==
    call.kind = "vector" =>
        /\ call.form = "N" =>
                /\ Len(call.value) = call.n
                /\ \A k \in 1..call.n : call.value[k] = call.v[k]
        /\ call.form = "Start,N" =>
                /\ call.indices = [k \in 1..call.n |-> call.start + k - 1]
                /\ Len(call.value) = call.n
                /\ \A k \in 1..call.n : call.value[k] = call.v[call.start + k]
        /\ call.form = "custom" =>
                /\ Len(call.value) = Len(call.seq)
                /\ \A k \in DOMAIN call.seq :
                        call.value[k] = call.v[call.seq[k] + 1]
        /\ Len(call.ref) = Len(call.value)
        /\ \A k \in DOMAIN call.ref :
                /\ call.ref[k].at = call.indices[k]
                /\ call.v[call.ref[k].at + 1] = call.value[k]

\* vector_to_tuple<1, 2>(v) of v = {0, 1, 0}: the tuple (1, 0) of the
\* elements at 1 and 2.
C27_Witness ==
    /\ call.kind = "vector"
    /\ call.form = "Start,N"
    /\ call.v = <<0, 1, 0>>
    /\ call.start = 1
    /\ call.n = 2
    /\ call.indices = <<1, 2>>
    /\ call.value = <<1, 0>>

-----------------------------------------------------------------------------
(* ImplCBMI::operator=(const ImplCBMI &) statement by statement             *)
(* (src/src/cbmi.h).  call holds the assignment in progress: the statement  *)
(* to run next, the containers, the handle a held on entry and what it      *)
(* wrapped, the clone t, and how many clones and releases have been made.   *)
(* std::unique_ptr::reset(t) first stores t and then deletes the pointer    *)
(* held before.                                                             *)

\* An operator= that releases the handle held before cloning the source's.
CopyAssignStep_ReleaseFirst(pc, self) ==
    CASE pc = "begin" -> IF self THEN "return" ELSE "release"
      [] pc = "release" -> "clone"
      [] pc = "clone" -> "store"
      [] pc = "store" -> "return"

\* The statement that follows pc: if (this != &poly) { auto t =
\* poly.mPoly->Clone(); mPoly.reset(t); } return *this;
CopyAssignStep(pc, self) ==
    CASE pc = "begin" -> IF self THEN "return" ELSE "clone"
      [] pc = "clone" -> "store"
      [] pc = "store" -> "release"
      [] pc = "release" -> "return"

\* a = b is entered; b holds a handle unless b is a itself, which is not
\* dereferenced.
AssignBegin(c, s) ==
    /\ call = NoCall
    /\ live[c]
    /\ live[s]
    /\ SelfAssign(c, s) \/ mPoly[s] # Null
    /\ call' = [kind |-> "assign", pc |-> CopyAssignStep("begin", SelfAssign(c, s)),
                dst |-> c, src |-> s, old |-> mPoly[c],
                before |-> heap[mPoly[c]], t |-> Null,
                clones |-> 0, releases |-> 0]
    /\ UNCHANGED <<shared, rt, iface, ext, heap, mPoly, live, moved, doubleFree, last>>

\* auto t = poly.mPoly->Clone(): operator new returns a fresh handle.
AssignClone ==
    /\ call # NoCall
    /\ call.kind = "assign"
    /\ call.pc = "clone"
    /\ \E t \in FreeHandles :
        /\ heap' = [heap EXCEPT ![t] = Concept_Clone(heap[mPoly[call.src]])]
        /\ call' = [call EXCEPT !.pc = CopyAssignStep("clone", FALSE),
                                !.t = t, !.clones = @ + 1]
    /\ UNCHANGED <<shared, rt, iface, ext, mPoly, live, moved, doubleFree, last>>

\* poly.mPoly->Clone() throws (operator new fails): the exception leaves
\* operator=.
AssignThrow ==
    /\ call # NoCall
    /\ call.kind = "assign"
    /\ call.pc = "clone"
    /\ call' = [call EXCEPT !.pc = "threw"]
    /\ UNCHANGED <<shared, rt, iface, ext, heap, mPoly, live, moved, doubleFree, last>>

\* mPoly.reset(t), first half: the stored pointer becomes t.
AssignStore ==
    /\ call # NoCall
    /\ call.kind = "assign"
    /\ call.pc = "store"
    /\ mPoly' = [mPoly EXCEPT ![call.dst] = ResetTo(call.t)]
    /\ call' = [call EXCEPT !.pc = CopyAssignStep("store", FALSE)]
    /\ UNCHANGED <<shared, rt, iface, ext, heap, live, moved, doubleFree, last>>

\* mPoly.reset(t), second half: the pointer held on entry is deleted.
AssignRelease ==
    /\ call # NoCall
    /\ call.kind = "assign"
    /\ call.pc = "release"
    /\ heap' = Delete(heap, call.old)
    /\ doubleFree' = (doubleFree \/ BadDelete(call.old))
    /\ call' = [call EXCEPT !.pc = CopyAssignStep("release", FALSE),
                            !.releases = IF call.old = Null THEN @ ELSE @ + 1]
    /\ UNCHANGED <<shared, rt, iface, ext, mPoly, live, moved, last>>

\* return *this, or the exception reaches the caller.
AssignReturn ==
    /\ call # NoCall
    /\ call.kind = "assign"
    /\ call.pc \in {"return", "threw"}
    /\ call' = NoCall
    /\ IF call.pc = "return"
       THEN /\ moved' = [moved EXCEPT ![call.dst] = @ /\ mPoly[call.dst] = Null]
            /\ last' = Op("CopyAssign", call.dst, call.src)
       ELSE UNCHANGED <<moved, last>>
    /\ UNCHANGED <<shared, rt, iface, ext, heap, mPoly, live, doubleFree>>

NextAssign ==
    \/ /\ call = NoCall
       /\ \E c \in Slots, t \in TypesOf(iface) : \E v \in ValsOf(t) :
            ConstructTemp(c, t, v)
    \/ /\ call = NoCall
       /\ \E c \in Slots, x \in ExtIds : ConstructNamed(c, x)
    \/ /\ call = NoCall
       /\ \E c \in Slots, s \in Slots : MoveAssign(c, s)
    \/ /\ call = NoCall
       /\ \E c \in Slots : Destroy(c)
    \/ \E c \in Slots, s \in Slots : AssignBegin(c, s)
    \/ AssignClone
    \/ AssignThrow
    \/ AssignStore
    \/ AssignRelease
    \/ AssignReturn

SpecAssign == InitRT /\ [][NextAssign]_vars

-----------------------------------------------------------------------------
\* C28: during a copy assignment a = b, a container a that held a handle on
\* entry holds an allocated handle at every step; a = a makes no clone and no
\* release and leaves a's handle and its value as they were; otherwise the
\* clone is made before the previous handle is released and replaced, so
\* when cloning throws a still holds its previous handle and value and
\* nothing was released; and on return the previous handle has been released
\* exactly once and a holds the clone.
C28_CloneBeforeRelease ==
    call.kind = "assign" =>
        /\ call.old # Null =>
                /\ mPoly[call.dst] # Null
                /\ heap[mPoly[call.dst]] # Free
        /\ call.releases > 0 => call.clones = 1
        /\ mPoly[call.dst] # call.old => call.clones = 1
        /\ ~doubleFree
        /\ (call.pc = "return" /\ SelfAssign(call.dst, call.src)) =>
                /\ call.clones = 0
                /\ call.releases = 0
                /\ mPoly[call.dst] = call.old
                /\ heap[call.old] = call.before
        /\ call.pc = "threw" =>
                /\ call.clones = 0
                /\ call.releases = 0
                /\ mPoly[call.dst] = call.old
                /\ heap[call.old] = call.before
        /\ (call.pc = "return" /\ ~SelfAssign(call.dst, call.src)) =>
                /\ call.clones = 1
                /\ call.releases = (IF call.old = Null THEN 0 ELSE 1)
                /\ call.old # Null => heap[call.old] = Free
                /\ mPoly[call.dst] = call.t
                /\ heap[call.t] = Concept_Clone(heap[mPoly[call.src]])

\* a = b, a holding a handle, has stored the clone and is about to release
\* the handle a held on entry.
C28_Witness ==
    /\ call.kind = "assign"
    /\ call.pc = "release"
    /\ call.old # Null
    /\ call.dst # call.src
    /\ mPoly[call.dst] = call.t
    /\ heap[call.old] # Free
    /\ call.clones = 1
    /\ call.releases = 0

====
